---- MODULE Spec2Model ----
(***************************************************************************)
(* A model of binary_set.hxx: the bit-packed set binary_set and the        *)
(* subset-search trie bs_searcher.                                         *)
(*                                                                         *)
(* A binary_set object is the record of its three fields                   *)
(*     [capacity_, size_, set_]                                            *)
(* where set_ is the byte vector (a sequence of numbers 0..255; the        *)
(* source's set_[j] is set_[j + 1] here, sequences being 1-based).         *)
(* A member function is an operator from the object (and its arguments) to *)
(* the record [self, ret, err]: the object afterwards, the value returned, *)
(* and the exception thrown ("none" when the call returns normally).       *)
(*                                                                         *)
(* The tree of a bs_searcher is a function from the paths of its nodes to  *)
(* their value vectors.  A path is the sequence of branches from the root: *)
(* FALSE for the left child (element absent), TRUE for the right child     *)
(* (element present).  The root is the empty path.  A node's left pointer is *)
(* non-null exactly when the path extended by 0 is in the domain, and      *)
(* resetting a unique_ptr removes the whole subtree it owns.               *)
(***************************************************************************)
EXTENDS Integers, Sequences, FiniteSets, Bags, TLC

VARIABLES
    capacity_,   \* bs_searcher::capacity_
    tree,        \* the nodes owned by bs_searcher::root_ : path -> values
    stored,      \* history: the bag of (value, elements) pairs inserted and not yet removed
    s,           \* a binary_set object that a client program works on
    wide,        \* a binary_set of a capacity anywhere in the range of unsigned int
    finders,     \* the calls of find_subsets in progress: a bag of their locals
    remover      \* a call of remove in progress: its locals

vars == <<capacity_, tree, stored, s, wide, finders, remover>>

(***************************************************************************)
(* Bounds of the model.                                                    *)
(***************************************************************************)
MaxIndexCapacity == 2   \* bs_searcher capacities 0..MaxIndexCapacity
NumValues == 2          \* the identifiers 1..NumValues
MaxEntries == 3         \* at most this many entries are stored in an index
MaxSetCapacity == 9     \* binary_set capacities 0..MaxSetCapacity
MaxOperandOps == 1      \* add/remove calls that build the other operand
MaxLowCapacity == 24    \* wide capacities 0..MaxLowCapacity
MaxBelowTop == 24       \* wide capacities down to this far below 2^16 - 1 and 2^32 - 1
NumFinders == 2         \* threads that call find_subsets
MaxStoredSets == 2      \* sets an index holds when concurrent calls begin

Values == 1..NumValues

(***************************************************************************)
(* Machine arithmetic.                                                     *)
(***************************************************************************)
UCharMod == 2^8

\* static_cast<unsigned char>, and the conversion on assignment to a byte
UChar(x) == x % UCharMod

\* a & b bit by bit, on non-negative bit patterns
RECURSIVE BitAndBits(_, _)
BitAndBits(a, b) ==
    IF a = 0 \/ b = 0 THEN 0
    ELSE (a % 2) * (b % 2) + 2 * BitAndBits(a \div 2, b \div 2)

\* a & b of two bytes, tabulated
ByteAnd == [a \in 0..(UCharMod - 1) |-> [b \in 0..(UCharMod - 1) |-> BitAndBits(a, b)]]

\* a & b on non-negative bit patterns
BitAnd(a, b) == IF a < UCharMod /\ b < UCharMod THEN ByteAnd[a][b] ELSE BitAndBits(a, b)

\* a | b on non-negative bit patterns
RECURSIVE BitOr(_, _)
BitOr(a, b) ==
    IF a = 0 THEN b
    ELSE IF b = 0 THEN a
    ELSE (IF a % 2 = 1 \/ b % 2 = 1 THEN 1 ELSE 0) + 2 * BitOr(a \div 2, b \div 2)

\* the low byte of ~a.  Every ~ of the source is and-ed with, or assigned to,
\* an unsigned char, so the higher bits of the operand never reach a result.
BitNot(a) == UCharMod - 1 - UChar(a)

\* 1u << k, for the shifts k = element % 8 of the source
Shl1(k) == 2^k

\* unsigned int has 32 bits.  A value is kept as its two 16-bit halves
\* [hi, lo], so that every number of the model stays below 2^31.
UIntHalf == 2^16

UInt(hi, lo) == [hi |-> hi, lo |-> lo]

\* the unsigned int of a number below 2^31
ToUInt(n) == UInt(n \div UIntHalf, n % UIntHalf)

\* a + n in unsigned int arithmetic (modulo 2^32), for a number n below 2^16
UIntAdd(a, n) ==
    LET lo == a.lo + n
    IN UInt((a.hi + lo \div UIntHalf) % UIntHalf, lo % UIntHalf)

\* a / 8, a number below 2^29
UIntDiv8(a) == a.hi * (UIntHalf \div 8) + a.lo \div 8

\* a % 8
UIntMod8(a) == a.lo % 8

\* a < b
UIntLess(a, b) == a.hi < b.hi \/ (a.hi = b.hi /\ a.lo < b.lo)

(***************************************************************************)
(* binary_set                                                              *)
(***************************************************************************)
Outcome(self, ret, err) == [self |-> self, ret |-> ret, err |-> err]

\* the byte vector after set_[j] = b
SetByte(set_, j, b) == [set_ EXCEPT ![j + 1] = b]

\* binary_set() noexcept = default
binary_set_default == [capacity_ |-> 0, size_ |-> 0, set_ |-> <<>>]

\* the mask of the bits of the last byte that are below capacity
LastByteMask(capacity) == UChar(Shl1(capacity % 8) - 1)

\* (capacity_ + 7) / 8 in unsigned int arithmetic, the number of bytes the
\* constructor resizes set_ to
StoreBytes(capacity) == UIntDiv8(UIntAdd(capacity, 7))

\* explicit binary_set(unsigned int capacity, bool fill = false)
binary_set(capacity, fill) ==
    IF capacity = 0
    THEN Outcome(binary_set_default, FALSE, "invalid_argument")
    ELSE LET n == StoreBytes(ToUInt(capacity))
             bytes == [j \in 1..n |-> IF fill THEN UChar(BitNot(0)) ELSE 0]
             masked == IF fill /\ capacity % 8 # 0
                       THEN SetByte(bytes, n - 1, BitAnd(bytes[n], LastByteMask(capacity)))
                       ELSE bytes
         IN Outcome([capacity_ |-> capacity,
                     size_ |-> IF fill THEN capacity ELSE 0,
                     set_ |-> masked], TRUE, "none")

\* a slip: the range test comes first, so a zero-capacity set reports a range error
validate_element_range_first(self, element) ==
    IF element >= self.capacity_ THEN "out_of_range"
    ELSE IF self.capacity_ = 0 THEN "domain_error"
    ELSE "none"

\* void validate_element(unsigned int element) const
validate_element(self, element) ==
    IF self.capacity_ = 0 THEN "domain_error"
    ELSE IF element >= self.capacity_ THEN "out_of_range"
    ELSE "none"

\* bool contains(unsigned int element) const
contains(self, element) ==
    LET err == validate_element(self, element) IN
    IF err # "none" THEN Outcome(self, FALSE, err)
    ELSE Outcome(self, BitAnd(self.set_[element \div 8 + 1], Shl1(element % 8)) # 0, "none")

\* a slip: size_ is counted up before the membership test
add_count_first(self, element) ==
    LET err == validate_element(self, element) IN
    IF err # "none" THEN Outcome(self, FALSE, err)
    ELSE IF contains(self, element).ret
         THEN Outcome([self EXCEPT !.size_ = self.size_ + 1], FALSE, "none")
    ELSE LET j == element \div 8
             b == UChar(BitOr(self.set_[j + 1], Shl1(element % 8)))
         IN Outcome([self EXCEPT !.set_ = SetByte(self.set_, j, b),
                                 !.size_ = self.size_ + 1], TRUE, "none")

\* bool add(unsigned int element)
add(self, element) ==
    LET err == validate_element(self, element) IN
    IF err # "none" THEN Outcome(self, FALSE, err)
    ELSE IF contains(self, element).ret THEN Outcome(self, FALSE, "none")
    ELSE LET j == element \div 8
             b == UChar(BitOr(self.set_[j + 1], Shl1(element % 8)))
         IN Outcome([self EXCEPT !.set_ = SetByte(self.set_, j, b),
                                 !.size_ = self.size_ + 1], TRUE, "none")

\* a slip: the bit is cleared and size_ is left as it was
remove_no_count(self, element) ==
    LET err == validate_element(self, element) IN
    IF err # "none" THEN Outcome(self, FALSE, err)
    ELSE IF ~contains(self, element).ret THEN Outcome(self, FALSE, "none")
    ELSE LET j == element \div 8
             b == UChar(BitAnd(self.set_[j + 1], BitNot(Shl1(element % 8))))
         IN Outcome([self EXCEPT !.set_ = SetByte(self.set_, j, b)], TRUE, "none")

\* bool remove(unsigned int element)
remove(self, element) ==
    LET err == validate_element(self, element) IN
    IF err # "none" THEN Outcome(self, FALSE, err)
    ELSE IF ~contains(self, element).ret THEN Outcome(self, FALSE, "none")
    ELSE LET j == element \div 8
             b == UChar(BitAnd(self.set_[j + 1], BitNot(Shl1(element % 8))))
         IN Outcome([self EXCEPT !.set_ = SetByte(self.set_, j, b),
                                 !.size_ = self.size_ - 1], TRUE, "none")

\* void clear() noexcept
clear(self) ==
    Outcome([self EXCEPT !.set_ = [j \in 1..Len(self.set_) |-> 0], !.size_ = 0],
            TRUE, "none")

\* a slip: the extra bits of the last byte are not cleared
fill_unmasked(self) ==
    Outcome([self EXCEPT !.set_ = [j \in 1..Len(self.set_) |-> UChar(BitNot(0))],
                         !.size_ = self.capacity_], TRUE, "none")

\* void fill()
fill(self) ==
    LET n == Len(self.set_)
        bytes == [j \in 1..n |-> UChar(BitNot(0))]
        masked == IF self.capacity_ % 8 # 0 /\ self.capacity_ # 0
                  THEN SetByte(bytes, n - 1, BitAnd(bytes[n], LastByteMask(self.capacity_)))
                  ELSE bytes
    IN Outcome([self EXCEPT !.set_ = masked, !.size_ = self.capacity_], TRUE, "none")

\* unsigned int capacity() const noexcept
capacity(self) == self.capacity_

\* std::size_t size() const noexcept
size(self) == self.size_

\* a slip: only the first byte is looked at
empty_first_byte(self) == Len(self.set_) = 0 \/ self.set_[1] = 0

\* explicit operator std::string() const: the characters of the result
to_string(self) ==
    Outcome(self,
            <<"[">> \o [i \in 1..self.capacity_ |->
                           IF contains(self, i - 1).ret THEN "X" ELSE "-"] \o <<"]">>,
            "none")

\* bool empty() const noexcept
empty(self) == \A j \in 1..Len(self.set_) : self.set_[j] = 0

\* a slip: b >>= 1 in place of b &= b - 1
RECURSIVE CountBits_shift(_)
CountBits_shift(b) == IF b = 0 THEN 0 ELSE 1 + CountBits_shift(b \div 2)

\* the inner loop of recalculate_size: Brian Kernighan's bit count of one byte
RECURSIVE CountBits(_)
CountBits(b) == IF b = 0 THEN 0 ELSE 1 + CountBits(UChar(BitAnd(b, b - 1)))

RECURSIVE SumBits(_, _)
SumBits(set_, n) == IF n = 0 THEN 0 ELSE SumBits(set_, n - 1) + CountBits(set_[n])

\* void recalculate_size() noexcept
recalculate_size(self) == [self EXCEPT !.size_ = SumBits(self.set_, Len(self.set_))]

\* a slip: only a smaller operand is rejected
validate_same_capacity_smaller_only(self, other) ==
    IF self.capacity_ > other.capacity_ THEN "invalid_argument" ELSE "none"

\* void validate_same_capacity(const binary_set &other) const
validate_same_capacity(self, other) ==
    IF self.capacity_ # other.capacity_ THEN "invalid_argument" ELSE "none"

\* binary_set operator&(const binary_set &other) const
op_and(self, other) ==
    LET err == validate_same_capacity(self, other) IN
    IF err # "none" THEN Outcome(self, self, err)
    ELSE LET result == [self EXCEPT !.set_ =
                 [j \in 1..Len(self.set_) |-> UChar(BitAnd(self.set_[j], other.set_[j]))]]
         IN Outcome(self, recalculate_size(result), "none")

\* binary_set &operator&=(const binary_set &other)
op_and_assign(self, other) ==
    LET err == validate_same_capacity(self, other) IN
    IF err # "none" THEN Outcome(self, self, err)
    ELSE LET new == recalculate_size([self EXCEPT !.set_ =
                 [j \in 1..Len(self.set_) |-> UChar(BitAnd(self.set_[j], other.set_[j]))]])
         IN Outcome(new, new, "none")

\* a slip: ^ in place of |
op_or_exclusive(self, other) ==
    LET err == validate_same_capacity(self, other) IN
    IF err # "none" THEN Outcome(self, self, err)
    ELSE LET result == [self EXCEPT !.set_ =
                 [j \in 1..Len(self.set_) |->
                     UChar(BitOr(self.set_[j], other.set_[j])
                             - BitAnd(self.set_[j], other.set_[j]))]]
         IN Outcome(self, recalculate_size(result), "none")

\* binary_set operator|(const binary_set &other) const
op_or(self, other) ==
    LET err == validate_same_capacity(self, other) IN
    IF err # "none" THEN Outcome(self, self, err)
    ELSE LET result == [self EXCEPT !.set_ =
                 [j \in 1..Len(self.set_) |-> UChar(BitOr(self.set_[j], other.set_[j]))]]
         IN Outcome(self, recalculate_size(result), "none")

\* binary_set &operator|=(const binary_set &other)
op_or_assign(self, other) ==
    LET err == validate_same_capacity(self, other) IN
    IF err # "none" THEN Outcome(self, self, err)
    ELSE LET new == recalculate_size([self EXCEPT !.set_ =
                 [j \in 1..Len(self.set_) |-> UChar(BitOr(self.set_[j], other.set_[j]))]])
         IN Outcome(new, new, "none")

\* a slip: the complement is taken of the left operand
op_minus_flipped(self, other) ==
    LET err == validate_same_capacity(self, other) IN
    IF err # "none" THEN Outcome(self, self, err)
    ELSE LET result == [self EXCEPT !.set_ =
                 [j \in 1..Len(self.set_) |->
                     UChar(BitAnd(BitNot(self.set_[j]), other.set_[j]))]]
         IN Outcome(self, recalculate_size(result), "none")

\* binary_set operator-(const binary_set &other) const
op_minus(self, other) ==
    LET err == validate_same_capacity(self, other) IN
    IF err # "none" THEN Outcome(self, self, err)
    ELSE LET result == [self EXCEPT !.set_ =
                 [j \in 1..Len(self.set_) |->
                     UChar(BitAnd(self.set_[j], BitNot(other.set_[j])))]]
         IN Outcome(self, recalculate_size(result), "none")

\* binary_set &operator-=(const binary_set &other)
op_minus_assign(self, other) ==
    LET err == validate_same_capacity(self, other) IN
    IF err # "none" THEN Outcome(self, self, err)
    ELSE LET new == recalculate_size([self EXCEPT !.set_ =
                 [j \in 1..Len(self.set_) |->
                     UChar(BitAnd(self.set_[j], BitNot(other.set_[j])))]])
         IN Outcome(new, new, "none")

\* a slip: the last byte is masked also when capacity_ is a multiple of 8
op_not_always_masked(self) ==
    LET made == binary_set(self.capacity_, FALSE) IN
    IF made.err # "none" THEN Outcome(self, self, made.err)
    ELSE LET n == Len(self.set_)
             flipped == [j \in 1..n |-> UChar(BitNot(self.set_[j]))]
             masked == SetByte(flipped, n - 1,
                               BitAnd(flipped[n], LastByteMask(self.capacity_)))
         IN Outcome(self, recalculate_size([made.self EXCEPT !.set_ = masked]), "none")

\* a slip: the result starts as a copy of this set, not from the constructor
op_not_of_copy(self) ==
    LET n == Len(self.set_)
        flipped == [j \in 1..n |-> UChar(BitNot(self.set_[j]))]
        masked == IF self.capacity_ % 8 # 0 /\ self.capacity_ # 0
                  THEN SetByte(flipped, n - 1,
                               BitAnd(flipped[n], LastByteMask(self.capacity_)))
                  ELSE flipped
    IN Outcome(self, recalculate_size([self EXCEPT !.set_ = masked]), "none")

\* binary_set operator!() const
op_not(self) ==
    LET made == binary_set(self.capacity_, FALSE) IN
    IF made.err # "none" THEN Outcome(self, self, made.err)
    ELSE LET n == Len(self.set_)
             flipped == [j \in 1..n |-> UChar(BitNot(self.set_[j]))]
             masked == IF self.capacity_ % 8 # 0 /\ self.capacity_ # 0
                       THEN SetByte(flipped, n - 1,
                                    BitAnd(flipped[n], LastByteMask(self.capacity_)))
                       ELSE flipped
         IN Outcome(self, recalculate_size([made.self EXCEPT !.set_ = masked]), "none")

\* bool operator==(const binary_set &other) const
op_eq(self, other) ==
    LET err == validate_same_capacity(self, other) IN
    IF err # "none" THEN Outcome(self, FALSE, err)
    ELSE Outcome(self, self.set_ = other.set_, "none")

\* bool operator!=(const binary_set &other) const
op_neq(self, other) ==
    LET err == validate_same_capacity(self, other) IN
    IF err # "none" THEN Outcome(self, FALSE, err)
    ELSE Outcome(self, self.set_ # other.set_, "none")

\* bool intersects(const binary_set &other) const
intersects(self, other) ==
    LET err == validate_same_capacity(self, other) IN
    IF err # "none" THEN Outcome(self, FALSE, err)
    ELSE Outcome(self,
                 \E j \in 1..Len(self.set_) : BitAnd(self.set_[j], other.set_[j]) # 0,
                 "none")

\* a slip: the complement is taken of the other set
contains_set_reversed(self, other) ==
    LET err == validate_same_capacity(self, other) IN
    IF err # "none" THEN Outcome(self, FALSE, err)
    ELSE Outcome(self,
                 \A j \in 1..Len(self.set_) :
                     BitAnd(self.set_[j], BitNot(other.set_[j])) = 0,
                 "none")

\* bool contains(const binary_set &other) const
contains_set(self, other) ==
    LET err == validate_same_capacity(self, other) IN
    IF err # "none" THEN Outcome(self, FALSE, err)
    ELSE Outcome(self,
                 \A j \in 1..Len(self.set_) :
                     BitAnd(BitNot(self.set_[j]), other.set_[j]) = 0,
                 "none")

(***************************************************************************)
(* binary_set with a capacity anywhere in the range of unsigned int.  The  *)
(* object is the record [capacity_, size_, bytes, err]: capacity_ and      *)
(* size_ as unsigned values, bytes the length set_.size() of the byte      *)
(* vector (its up to 2^29 bytes are not kept), and err "crashed" once an   *)
(* access outside the vector has ended the program.  Such an access is     *)
(* undefined: the program may crash or go on, so these operators yield the *)
(* set of the objects a call may leave.                                    *)
(***************************************************************************)
\* binary_set() noexcept = default
wide_default == [capacity_ |-> UInt(0, 0), size_ |-> UInt(0, 0), bytes |-> 0, err |-> "none"]

\* explicit binary_set(unsigned int capacity, bool fill = false): the objects
\* it may construct, none when it throws invalid_argument
wide_binary_set(c, f) ==
    IF c = UInt(0, 0) THEN {}
    ELSE LET n == StoreBytes(c)
             made == [capacity_ |-> c,
                      size_ |-> IF f THEN c ELSE UInt(0, 0),
                      bytes |-> n, err |-> "none"]
         IN IF f /\ UIntMod8(c) # 0 /\ n = 0
            THEN {made, [made EXCEPT !.err = "crashed"]}   \* set_[set_.size() - 1] of an empty set_
            ELSE {made}

\* validate_element(element) for an unsigned element
wide_validate_element(self, element) ==
    IF self.capacity_ = UInt(0, 0) THEN "domain_error"
    ELSE IF ~UIntLess(element, self.capacity_) THEN "out_of_range"
    ELSE "none"

\* bool contains(unsigned int element) const: the objects the call may leave
wide_contains(self, element) ==
    IF wide_validate_element(self, element) # "none" THEN {self}
    ELSE IF UIntDiv8(element) < self.bytes THEN {self}
    ELSE {self, [self EXCEPT !.err = "crashed"]}           \* set_[element / 8] outside set_

(***************************************************************************)
(* binary_set::iterator: the record of its fields [bs_, current_pos_]      *)
(***************************************************************************)
\* the do-while loop of operator++ from position pos: the position it stops at
RECURSIVE advance(_, _)
advance(bs, pos) ==
    LET next == pos + 1 IN
    IF next < capacity(bs) /\ ~contains(bs, next).ret THEN advance(bs, next)
    ELSE next

\* iterator &operator++()
increment(it) == [it EXCEPT !.current_pos_ = advance(it.bs_, it.current_pos_)]

\* a slip: the constructor keeps the position it is given
iterator_no_advance(bs, pos) == [bs_ |-> bs, current_pos_ |-> pos]

\* iterator(const binary_set *bs, unsigned int pos) noexcept
iterator(bs, pos) ==
    LET it == [bs_ |-> bs, current_pos_ |-> pos] IN
    IF pos < capacity(bs) /\ ~contains(bs, pos).ret THEN increment(it) ELSE it

\* value_type operator*() const noexcept
deref(it) == it.current_pos_

\* bool operator==(const iterator &other) const noexcept
iterator_eq(it, other) == it.current_pos_ = other.current_pos_

\* bool operator!=(const iterator &other) const noexcept
iterator_neq(it, other) == ~iterator_eq(it, other)

\* iterator begin() const noexcept
begin(bs) == iterator(bs, 0)

\* iterator end() const noexcept
end(bs) == iterator(bs, capacity(bs))

\* for (; first != last; ++first) push_back(*first): what a range-for loop and
\* the range constructor of std::vector visit
RECURSIVE visit(_, _)
visit(first, last) ==
    IF iterator_neq(first, last) THEN <<deref(first)>> \o visit(increment(first), last)
    ELSE <<>>

\* std::vector<unsigned int> sparse() const
sparse(self) ==
    IF self.capacity_ = 0 THEN Outcome(self, <<>>, "domain_error")
    ELSE Outcome(self, visit(begin(self), end(self)), "none")

(***************************************************************************)
(* The elements a binary_set holds, and sets as client code builds them.   *)
(***************************************************************************)
\* what iterating 0..capacity-1 with contains() observes
Elements(bs) == {e \in 0..(bs.capacity_ - 1) : contains(bs, e).ret}

RECURSIVE AddAll(_, _)
AddAll(bs, E) ==
    IF E = {} THEN bs
    ELSE LET e == CHOOSE x \in E : \A y \in E : x <= y
         IN AddAll(add(bs, e).self, E \ {e})

\* binary_set bs(c); bs.add(e) for each e in E   (binary_set bs; when c is 0)
SetOf(c, E) == IF c = 0 THEN binary_set_default ELSE AddAll(binary_set(c, FALSE).self, E)

(***************************************************************************)
(* bs_searcher                                                             *)
(***************************************************************************)
Root == <<>>

\* a treenode pointer: null, or the node at a path
NULL == <<>>
Ptr(p) == <<p>>

\* treenode() = default : a node with no values and no children
EmptyTree == [p \in {Root} |-> <<>>]

\* the paths of the children of the node at p
left(p) == Append(p, FALSE)
right(p) == Append(p, TRUE)

\* node->left / node->right as pointers
get_left(t, p) == IF left(p) \in DOMAIN t THEN Ptr(left(p)) ELSE NULL
get_right(t, p) == IF right(p) \in DOMAIN t THEN Ptr(right(p)) ELSE NULL

IsPrefix(p, q) == Len(p) <= Len(q) /\ SubSeq(q, 1, Len(p)) = p

\* ptr = std::make_unique<treenode>() for the null child pointer at path p
make_unique(t, p) == [q \in DOMAIN t \cup {p} |-> IF q = p THEN <<>> ELSE t[q]]

\* ptr.reset() for the child pointer at path p: the node and all it owns are freed
reset(t, p) == [q \in {x \in DOMAIN t : ~IsPrefix(p, x)} |-> t[q]]

\* a slip: only a set that is too small is rejected
validate_capacity_smaller_only(cap, bs) ==
    IF cap > capacity(bs) THEN "invalid_argument" ELSE "none"

\* a slip: a zero capacity is rejected, as the constructor of binary_set does
validate_capacity_nonzero(cap, bs) ==
    IF cap = 0 \/ cap # capacity(bs) THEN "invalid_argument" ELSE "none"

\* void validate_capacity(const binary_set &bs) const
validate_capacity(cap, bs) ==
    IF cap # capacity(bs) THEN "invalid_argument" ELSE "none"

\* a slip: the traversal stops one level early
RECURSIVE add_descend_short(_, _, _, _, _)
add_descend_short(cap, t, bs, i, leaf) ==
    IF ~(i + 1 < cap) THEN [tree |-> t, leaf |-> leaf, err |-> "none"]
    ELSE LET b == contains(bs, i) IN
         IF b.err # "none" THEN [tree |-> t, leaf |-> leaf, err |-> b.err]
         ELSE LET child == IF b.ret THEN right(leaf) ELSE left(leaf)
                  t1 == IF child \notin DOMAIN t THEN make_unique(t, child) ELSE t
              IN add_descend_short(cap, t1, bs, i + 1, child)

\* the traversal loop of add, from position i with leaf at path `leaf`
RECURSIVE add_descend(_, _, _, _, _)
add_descend(cap, t, bs, i, leaf) ==
    IF ~(i < cap) THEN [tree |-> t, leaf |-> leaf, err |-> "none"]
    ELSE LET b == contains(bs, i) IN
         IF b.err # "none" THEN [tree |-> t, leaf |-> leaf, err |-> b.err]
         ELSE LET child == IF b.ret THEN right(leaf) ELSE left(leaf)
                  t1 == IF child \notin DOMAIN t THEN make_unique(t, child) ELSE t
              IN add_descend(cap, t1, bs, i + 1, child)

\* a slip: a value the leaf already holds is not stored again
searcher_add_once(cap, t, value, bs) ==
    LET err == validate_capacity(cap, bs) IN
    IF err # "none" THEN [tree |-> t, err |-> err]
    ELSE LET d == add_descend(cap, t, bs, 0, Root) IN
         IF d.err # "none" THEN [tree |-> d.tree, err |-> d.err]
         ELSE IF \E k \in 1..Len(d.tree[d.leaf]) : d.tree[d.leaf][k] = value
              THEN [tree |-> d.tree, err |-> "none"]
         ELSE [tree |-> [d.tree EXCEPT ![d.leaf] = Append(@, value)], err |-> "none"]

\* void add(unsigned int value, const binary_set &bs)
searcher_add(cap, t, value, bs) ==
    LET err == validate_capacity(cap, bs) IN
    IF err # "none" THEN [tree |-> t, err |-> err]
    ELSE LET d == add_descend(cap, t, bs, 0, Root) IN
         IF d.err # "none" THEN [tree |-> d.tree, err |-> d.err]
         ELSE [tree |-> [d.tree EXCEPT ![d.leaf] = Append(@, value)], err |-> "none"]

\* the traversal loop of remove: records the parents and the branches taken
RECURSIVE remove_descend(_, _, _, _, _, _, _)
remove_descend(cap, t, bs, i, node, path, is_right_child) ==
    IF ~(i < cap /\ node # NULL)
    THEN [node |-> node, path |-> path, is_right_child |-> is_right_child, err |-> "none"]
    ELSE LET b == contains(bs, i) IN
         IF b.err # "none"
         THEN [node |-> node, path |-> path, is_right_child |-> is_right_child,
               err |-> b.err]
         ELSE remove_descend(cap, t, bs, i + 1,
                             IF b.ret THEN get_right(t, node[1]) ELSE get_left(t, node[1]),
                             Append(path, node[1]), Append(is_right_child, b.ret))

\* a slip: the search starts at the second entry
find_after_first(values, value) ==
    IF \E k \in 2..Len(values) : values[k] = value
    THEN CHOOSE k \in 2..Len(values) :
             values[k] = value /\ \A j \in 2..(k - 1) : values[j] # value
    ELSE 0

\* a slip: the search runs from the back
find_last(values, value) ==
    IF \E k \in 1..Len(values) : values[k] = value
    THEN CHOOSE k \in 1..Len(values) :
             values[k] = value /\ \A j \in (k + 1)..Len(values) : values[j] # value
    ELSE 0

\* std::find(values.begin(), values.end(), value): the first index, 0 for end()
find(values, value) ==
    IF \E k \in 1..Len(values) : values[k] = value
    THEN CHOOSE k \in 1..Len(values) :
             values[k] = value /\ \A j \in 1..(k - 1) : values[j] # value
    ELSE 0

\* a slip: the last entry is dropped without the swap
pop_without_swap(values, k) == SubSeq(values, 1, Len(values) - 1)

\* a slip: values.erase(it), which keeps the order of the entries after it
erase_at(values, k) == SubSeq(values, 1, k - 1) \o SubSeq(values, k + 1, Len(values))

\* swap with the last element and pop
swap_and_pop(values, k) ==
    LET n == Len(values)
        swapped == IF k # n THEN [values EXCEPT ![k] = values[n]] ELSE values
    IN SubSeq(swapped, 1, n - 1)

\* a slip: the walk stops at the first parent whatever it holds
keep_parent_always(t, parent) == TRUE

\* a slip: the walk looks at the parent's values and not at its children
keep_parent_values_only(t, parent) == t[parent] # <<>>

\* the stop test of the pruning loop
keep_parent(t, parent) ==
    t[parent] # <<>> \/ get_left(t, parent) # NULL \/ get_right(t, parent) # NULL

\* the pruning loop of remove, from i down to 1
RECURSIVE prune(_, _, _, _)
prune(t, path, is_right_child, i) ==
    IF ~(i > 0) THEN t
    ELSE LET parent == path[i]
             t1 == IF is_right_child[i] THEN reset(t, right(parent))
                   ELSE reset(t, left(parent))
         IN IF keep_parent(t1, parent) THEN t1
            ELSE prune(t1, path, is_right_child, i - 1)

\* a slip: the value is taken out and no node is ever freed
searcher_remove_no_prune(cap, t, value, bs) ==
    LET err == validate_capacity(cap, bs) IN
    IF err # "none" THEN [tree |-> t, ret |-> FALSE, err |-> err]
    ELSE LET d == remove_descend(cap, t, bs, 0, Ptr(Root), <<>>, <<>>) IN
         IF d.err # "none" THEN [tree |-> t, ret |-> FALSE, err |-> d.err]
         ELSE IF d.node = NULL THEN [tree |-> t, ret |-> FALSE, err |-> "none"]
         ELSE LET node == d.node[1]
                  it == find(t[node], value)
              IN IF it = 0 THEN [tree |-> t, ret |-> FALSE, err |-> "none"]
                 ELSE [tree |-> [t EXCEPT ![node] = swap_and_pop(@, it)],
                       ret |-> TRUE, err |-> "none"]

\* bool remove(unsigned int value, const binary_set &bs)
searcher_remove(cap, t, value, bs) ==
    LET err == validate_capacity(cap, bs) IN
    IF err # "none" THEN [tree |-> t, ret |-> FALSE, err |-> err]
    ELSE LET d == remove_descend(cap, t, bs, 0, Ptr(Root), <<>>, <<>>) IN
         IF d.err # "none" THEN [tree |-> t, ret |-> FALSE, err |-> d.err]
         ELSE IF d.node = NULL THEN [tree |-> t, ret |-> FALSE, err |-> "none"]
         ELSE LET node == d.node[1]
                  it == find(t[node], value)
              IN IF it = 0 THEN [tree |-> t, ret |-> FALSE, err |-> "none"]
                 ELSE LET t1 == [t EXCEPT ![node] = swap_and_pop(@, it)]
                          t2 == IF t1[node] = <<>> /\ get_left(t1, node) = NULL
                                     /\ get_right(t1, node) = NULL
                                THEN prune(t1, d.path, d.is_right_child, Len(d.path))
                                ELSE t1
                      IN [tree |-> t2, ret |-> TRUE, err |-> "none"]

\* a slip: both children survive whatever the query bit
children_of_unfiltered(t, node, bit) ==
    LET l == IF get_left(t, node) # NULL THEN <<left(node)>> ELSE <<>>
        r == IF get_right(t, node) # NULL THEN <<right(node)>> ELSE <<>>
    IN l \o r

\* a slip: the right child is pushed before the left one
children_of_right_first(t, node, bit) ==
    LET l == IF get_left(t, node) # NULL THEN <<left(node)>> ELSE <<>>
        r == IF get_right(t, node) # NULL THEN <<right(node)>> ELSE <<>>
    IN IF bit THEN r \o l ELSE l

\* a slip: a present position follows the present branch only
children_of_right_only(t, node, bit) ==
    LET l == IF get_left(t, node) # NULL THEN <<left(node)>> ELSE <<>>
        r == IF get_right(t, node) # NULL THEN <<right(node)>> ELSE <<>>
    IN IF bit THEN r ELSE l

\* a slip: the children are pushed without the test that they exist
children_of_unchecked(t, node, bit) ==
    IF bit THEN <<left(node), right(node)>> ELSE <<left(node)>>

\* the children one frontier node contributes to next_level
children_of(t, node, bit) ==
    LET l == IF get_left(t, node) # NULL THEN <<left(node)>> ELSE <<>>
        r == IF get_right(t, node) # NULL THEN <<right(node)>> ELSE <<>>
    IN IF bit THEN l \o r ELSE l

\* the inner loop of find_subsets over current_level, from its k-th node
RECURSIVE next_level(_, _, _, _)
next_level(t, current_level, bit, k) ==
    IF k > Len(current_level) THEN <<>>
    ELSE children_of(t, current_level[k], bit) \o next_level(t, current_level, bit, k + 1)

\* the level loop of find_subsets, from position i
RECURSIVE traverse(_, _, _, _, _)
traverse(cap, t, bs, i, current_level) ==
    IF ~(i < cap /\ current_level # <<>>) THEN [level |-> current_level, err |-> "none"]
    ELSE LET b == contains(bs, i) IN
         IF b.err # "none" THEN [level |-> current_level, err |-> b.err]
         ELSE traverse(cap, t, bs, i + 1, next_level(t, current_level, b.ret, 1))

\* result.insert(result.end(), ...) over the nodes of current_level, from its k-th
RECURSIVE collect(_, _, _)
collect(t, current_level, k) ==
    IF k > Len(current_level) THEN <<>>
    ELSE t[current_level[k]] \o collect(t, current_level, k + 1)

\* std::vector<unsigned int> find_subsets(const binary_set &bs) const
find_subsets(cap, t, bs) ==
    LET err == validate_capacity(cap, bs) IN
    IF err # "none" THEN [ret |-> <<>>, err |-> err]
    ELSE LET start == IF Root \in DOMAIN t THEN <<Root>> ELSE <<>>
             f == traverse(cap, t, bs, 0, start)
         IN IF f.err # "none" THEN [ret |-> <<>>, err |-> f.err]
            ELSE [ret |-> collect(t, f.level, 1), err |-> "none"]

(***************************************************************************)
(* find_subsets and remove step by step, for calls that run concurrently.  *)
(* A call of find_subsets in progress is the record of its locals and of   *)
(* where it stands: at the head of the level loop ("level"), returned      *)
(* ("done"), or ended by a crash ("crashed").  The calls in progress are a *)
(* bag of such records: the threads that run them have no other state.     *)
(* One step is one iteration of the level loop, or the loop's exit with    *)
(* the collection of the result.  Reading a node that has been freed is    *)
(* undefined: the call may crash, or go on with what a destroyed node      *)
(* holds, no children and no values; read_freed records that it happened.  *)
(* A step yields the set of the bags of calls that it may leave.           *)
(***************************************************************************)
NoFinders == EmptyBag

\* the bag of calls after the call me has moved on to the record next
Moved(fs, me, next) == (fs (-) SetToBag({me})) (+) SetToBag({next})

\* some node of the frontier is not in the tree any more
Freed(t, level) == \E k \in 1..Len(level) : level[k] \notin DOMAIN t

\* the nodes of the frontier that are in the tree
Live(t, level) == SelectSeq(level, LAMBDA n : n \in DOMAIN t)

\* find_subsets up to the level loop: validate_capacity and the push of the root
find_start(t, cap, fs, bs) ==
    LET err == validate_capacity(cap, bs)
        called == [pc |-> "level", bs |-> bs, i |-> 0,
                   current_level |-> IF Root \in DOMAIN t THEN <<Root>> ELSE <<>>,
                   result |-> <<>>, err |-> "none", read_freed |-> FALSE]
    IN IF err # "none"
       THEN {fs (+) SetToBag({[called EXCEPT !.pc = "done", !.current_level = <<>>,
                                              !.err = err]})}
       ELSE {fs (+) SetToBag({called})}

\* the calls of R, as often as in fs, with next for the frontier of those in the loop
RECURSIVE SharingLevel(_, _, _)
SharingLevel(fs, R, next) ==
    IF R = {} THEN EmptyBag
    ELSE LET r == CHOOSE x \in R : TRUE
             shared == IF r.pc = "level" THEN [r EXCEPT !.current_level = next] ELSE r
         IN [x \in {shared} |-> fs[r]] (+) SharingLevel(fs, R \ {r}, next)

\* a slip: current_level is a member of the index, shared by the calls
find_level_shared(t, cap, fs, me) ==
    LET next == next_level(t, me.current_level, contains(me.bs, me.i).ret, 1)
        others == fs (-) SetToBag({me})
    IN {SharingLevel(others, BagToSet(others), next)
            (+) SetToBag({[me EXCEPT !.current_level = next, !.i = me.i + 1]})}

\* one iteration of the level loop of find_subsets
find_level(t, cap, fs, me) ==
    LET next == next_level(t, me.current_level, contains(me.bs, me.i).ret, 1)
        on == [me EXCEPT !.current_level = next, !.i = me.i + 1,
                         !.read_freed = @ \/ Freed(t, me.current_level)]
        crash == [me EXCEPT !.pc = "crashed", !.read_freed = TRUE]
    IN IF Freed(t, me.current_level)
       THEN {Moved(fs, me, on), Moved(fs, me, crash)}
       ELSE {Moved(fs, me, on)}

\* the exit of the level loop and the collection of the values
find_collect(t, cap, fs, me) ==
    LET on == [me EXCEPT !.pc = "done",
                         !.result = collect(t, Live(t, me.current_level), 1),
                         !.read_freed = @ \/ Freed(t, me.current_level)]
        crash == [me EXCEPT !.pc = "crashed", !.read_freed = TRUE]
    IN IF Freed(t, me.current_level)
       THEN {Moved(fs, me, on), Moved(fs, me, crash)}
       ELSE {Moved(fs, me, on)}

(***************************************************************************)
(* A call of remove is the record of its locals and of where it stands:    *)
(* idle, at the head of the pruning loop ("prune"), or returned ("done").  *)
(* One step is the call up to the pruning loop, or one iteration of that   *)
(* loop.                                                                   *)
(***************************************************************************)
IdleRemover ==
    [pc |-> "idle", value |-> 0, bs |-> binary_set_default, path |-> <<>>,
     is_right_child |-> <<>>, i |-> 0, ret |-> FALSE, err |-> "none"]

\* remove up to the pruning loop: the tree and the call afterwards
remove_start(cap, t, value, bs) ==
    LET err == validate_capacity(cap, bs)
        called == [IdleRemover EXCEPT !.value = value, !.bs = bs]
        returned(ret, e) == [called EXCEPT !.pc = "done", !.ret = ret, !.err = e]
    IN
    IF err # "none" THEN [tree |-> t, remover |-> returned(FALSE, err)]
    ELSE LET d == remove_descend(cap, t, bs, 0, Ptr(Root), <<>>, <<>>) IN
         IF d.err # "none" THEN [tree |-> t, remover |-> returned(FALSE, d.err)]
         ELSE IF d.node = NULL THEN [tree |-> t, remover |-> returned(FALSE, "none")]
         ELSE LET node == d.node[1]
                  it == find(t[node], value)
              IN IF it = 0 THEN [tree |-> t, remover |-> returned(FALSE, "none")]
                 ELSE LET t1 == [t EXCEPT ![node] = swap_and_pop(@, it)] IN
                      IF t1[node] = <<>> /\ get_left(t1, node) = NULL
                             /\ get_right(t1, node) = NULL /\ Len(d.path) > 0
                      THEN [tree |-> t1,
                            remover |-> [called EXCEPT !.pc = "prune", !.ret = TRUE,
                                            !.path = d.path,
                                            !.is_right_child = d.is_right_child,
                                            !.i = Len(d.path)]]
                      ELSE [tree |-> t1, remover |-> returned(TRUE, "none")]

\* one iteration of the pruning loop: the tree and the call afterwards
remove_prune(t, rm) ==
    LET parent == rm.path[rm.i]
        t1 == IF rm.is_right_child[rm.i] THEN reset(t, right(parent))
              ELSE reset(t, left(parent))
    IN IF keep_parent(t1, parent) \/ rm.i - 1 = 0
       THEN [tree |-> t1, remover |-> [rm EXCEPT !.pc = "done", !.i = rm.i - 1]]
       ELSE [tree |-> t1, remover |-> [rm EXCEPT !.i = rm.i - 1]]

(***************************************************************************)
(* The index under a client that inserts, removes and queries.             *)
(***************************************************************************)
\* the sets of capacity c, tabulated for the capacities of an index
SetsTable == [c \in 0..MaxIndexCapacity |-> {SetOf(c, E) : E \in SUBSET (0..(c - 1))}]

SetsOfCapacity(c) == SetsTable[c]

\* some sets of a capacity next to c: empty and full
MismatchedSets(c) ==
    {SetOf(c + 1, {}), SetOf(c + 1, 0..c)}
        \cup (IF c > 0 THEN {SetOf(c - 1, {}), SetOf(c - 1, 0..(c - 2))} ELSE {})

MismatchedTable == [c \in 0..(MaxIndexCapacity + MaxSetCapacity) |-> MismatchedSets(c)]

Mismatched(c) == MismatchedTable[c]

\* the sets a client passes to an index of capacity c
Arguments(c) == SetsOfCapacity(c) \cup Mismatched(c)

\* the number of values held by all nodes of t
RECURSIVE TotalValues(_, _)
TotalValues(t, P) ==
    IF P = {} THEN 0
    ELSE LET p == CHOOSE x \in P : TRUE IN Len(t[p]) + TotalValues(t, P \ {p})

Entry(value, bs) == <<value, Elements(bs)>>

\* explicit bs_searcher(unsigned int capacity)
bs_searcher(cap) == [capacity_ |-> cap, tree |-> EmptyTree]

Init ==
    /\ \E cap \in 0..MaxIndexCapacity :
          /\ capacity_ = bs_searcher(cap).capacity_
          /\ tree = bs_searcher(cap).tree
    /\ stored = EmptyBag
    /\ s = binary_set_default
    /\ wide = wide_default
    /\ finders = NoFinders
    /\ remover = IdleRemover

\* searcher.add(value, bs)
Add(value, bs) ==
    /\ TotalValues(tree, DOMAIN tree) < MaxEntries
    /\ LET r == searcher_add(capacity_, tree, value, bs) IN
          /\ tree' = r.tree
          /\ stored' = IF r.err = "none"
                       THEN stored (+) SetToBag({Entry(value, bs)})
                       ELSE stored
    /\ UNCHANGED <<capacity_, s, wide, finders, remover>>

\* searcher.remove(value, bs)
Remove(value, bs) ==
    /\ LET r == searcher_remove(capacity_, tree, value, bs) IN
          /\ tree' = r.tree
          /\ stored' = IF r.err = "none" /\ BagIn(Entry(value, bs), stored)
                       THEN stored (-) SetToBag({Entry(value, bs)})
                       ELSE stored
    /\ UNCHANGED <<capacity_, s, wide, finders, remover>>

\* searcher.find_subsets(bs): a const member function
FindSubsets(bs) ==
    /\ find_subsets(capacity_, tree, bs).err \in {"none", "invalid_argument"}
    /\ UNCHANGED vars

Next ==
    \/ \E value \in Values, bs \in Arguments(capacity_) : Add(value, bs)
    \/ \E value \in Values, bs \in Arguments(capacity_) : Remove(value, bs)
    \/ \E bs \in Arguments(capacity_) : FindSubsets(bs)

Spec == Init /\ [][Next]_vars

\* the index under a client that inserts and removes only: what add and
\* remove do to the tree does not depend on the queries made in between
NextMutation ==
    \/ \E value \in Values, bs \in Arguments(capacity_) : Add(value, bs)
    \/ \E value \in Values, bs \in Arguments(capacity_) : Remove(value, bs)

MutationSpec == Init /\ [][NextMutation]_vars

(***************************************************************************)
(* A binary_set under a client that mutates it and combines it with other  *)
(* sets.  The result of a set operation is assigned to s, as in            *)
(* s = s & other.                                                          *)
(***************************************************************************)
RECURSIVE RemoveAll(_, _)
RemoveAll(bs, E) ==
    IF E = {} THEN bs
    ELSE LET e == CHOOSE x \in E : \A y \in E : x <= y
         IN RemoveAll(remove(bs, e).self, E \ {e})

\* the sets of capacity c a client builds with at most MaxOperandOps calls
\* of add on an empty set, or of remove on a filled one
Operands(c) ==
    IF c = 0 THEN {binary_set_default}
    ELSE LET few == {E \in SUBSET (0..(c - 1)) : Cardinality(E) <= MaxOperandOps}
         IN {AddAll(binary_set(c, FALSE).self, E) : E \in few}
                \cup {RemoveAll(binary_set(c, TRUE).self, E) : E \in few}

\* the other operand of a set operation on a set of capacity c, tabulated
OperandTable == [c \in 0..MaxSetCapacity |-> Operands(c) \cup Mismatched(c)]

OtherOperands(c) == OperandTable[c]

InitSet ==
    /\ capacity_ = 0
    /\ tree = EmptyTree
    /\ stored = EmptyBag
    /\ \/ s = binary_set_default
       \/ \E c \in 1..MaxSetCapacity, f \in BOOLEAN : s = binary_set(c, f).self
    /\ wide = wide_default
    /\ finders = NoFinders
    /\ remover = IdleRemover

SetAdd(e) == s' = add(s, e).self /\ UNCHANGED <<capacity_, tree, stored, wide, finders, remover>>

SetRemove(e) == s' = remove(s, e).self /\ UNCHANGED <<capacity_, tree, stored, wide, finders, remover>>

SetClear == s' = clear(s).self /\ UNCHANGED <<capacity_, tree, stored, wide, finders, remover>>

SetFill == s' = fill(s).self /\ UNCHANGED <<capacity_, tree, stored, wide, finders, remover>>

\* s = s & other, s = s | other, s = s - other, s = !s: s is left as it was
\* when the operation throws
SetAnd(other) == s' = op_and(s, other).ret /\ UNCHANGED <<capacity_, tree, stored, wide, finders, remover>>

SetOr(other) == s' = op_or(s, other).ret /\ UNCHANGED <<capacity_, tree, stored, wide, finders, remover>>

SetMinus(other) == s' = op_minus(s, other).ret /\ UNCHANGED <<capacity_, tree, stored, wide, finders, remover>>

SetNot == s' = op_not(s).ret /\ UNCHANGED <<capacity_, tree, stored, wide, finders, remover>>

\* s &= other, s |= other, s -= other
SetAndAssign(other) ==
    s' = op_and_assign(s, other).self /\ UNCHANGED <<capacity_, tree, stored, wide, finders, remover>>

SetOrAssign(other) ==
    s' = op_or_assign(s, other).self /\ UNCHANGED <<capacity_, tree, stored, wide, finders, remover>>

SetMinusAssign(other) ==
    s' = op_minus_assign(s, other).self /\ UNCHANGED <<capacity_, tree, stored, wide, finders, remover>>

\* s == other, s != other, s.intersects(other), s.contains(other): const
\* member functions
SetEquals(other) ==
    /\ op_eq(s, other).err \in {"none", "invalid_argument"}
    /\ UNCHANGED vars

SetNotEquals(other) ==
    /\ op_neq(s, other).err \in {"none", "invalid_argument"}
    /\ UNCHANGED vars

SetIntersects(other) ==
    /\ intersects(s, other).err \in {"none", "invalid_argument"}
    /\ UNCHANGED vars

SetContains(other) ==
    /\ contains_set(s, other).err \in {"none", "invalid_argument"}
    /\ UNCHANGED vars

\* for (unsigned int e : s) ... and s.sparse(): const
SetIterate ==
    /\ Len(visit(begin(s), end(s))) <= capacity(s)
    /\ UNCHANGED vars

SetSparse ==
    /\ sparse(s).err \in {"none", "domain_error"}
    /\ UNCHANGED vars

\* static_cast<std::string>(s): const
SetString ==
    /\ Len(to_string(s).ret) = capacity(s) + 2
    /\ UNCHANGED vars

NextSet ==
    \/ \E e \in 0..MaxSetCapacity : SetAdd(e)
    \/ \E e \in 0..MaxSetCapacity : SetRemove(e)
    \/ SetClear
    \/ SetFill
    \/ \E other \in OtherOperands(capacity(s)) : SetAnd(other)
    \/ \E other \in OtherOperands(capacity(s)) : SetOr(other)
    \/ \E other \in OtherOperands(capacity(s)) : SetMinus(other)
    \/ SetNot
    \/ \E other \in OtherOperands(capacity(s)) : SetAndAssign(other)
    \/ \E other \in OtherOperands(capacity(s)) : SetOrAssign(other)
    \/ \E other \in OtherOperands(capacity(s)) : SetMinusAssign(other)
    \/ \E other \in OtherOperands(capacity(s)) : SetEquals(other)
    \/ \E other \in OtherOperands(capacity(s)) : SetNotEquals(other)
    \/ \E other \in OtherOperands(capacity(s)) : SetIntersects(other)
    \/ \E other \in OtherOperands(capacity(s)) : SetContains(other)
    \/ SetIterate
    \/ SetSparse
    \/ SetString

SetSpec == InitSet /\ [][NextSet]_vars

(***************************************************************************)
(* A client that constructs sets of small capacities and of capacities     *)
(* near 2^16 and near the largest unsigned int, and looks elements up.     *)
(***************************************************************************)
WideCapacities ==
    {ToUInt(n) : n \in 0..MaxLowCapacity}
        \cup {UInt(0, UIntHalf - 1 - k) : k \in 0..MaxBelowTop}
        \cup {UInt(UIntHalf - 1, UIntHalf - 1 - k) : k \in 0..MaxBelowTop}

WideElements == WideCapacities

InitCtor ==
    /\ capacity_ = 0
    /\ tree = EmptyTree
    /\ stored = EmptyBag
    /\ s = binary_set_default
    /\ wide = wide_default
    /\ finders = NoFinders
    /\ remover = IdleRemover

\* wide = binary_set(c, f); wide keeps its value when the constructor throws
Construct(c, f) ==
    /\ wide.err # "crashed"
    /\ IF wide_binary_set(c, f) = {} THEN wide' = wide
       ELSE wide' \in wide_binary_set(c, f)
    /\ UNCHANGED <<capacity_, tree, stored, s, finders, remover>>

\* wide.contains(element)
WideContains(element) ==
    /\ wide.err # "crashed"
    /\ wide' \in wide_contains(wide, element)
    /\ UNCHANGED <<capacity_, tree, stored, s, finders, remover>>

NextCtor ==
    \/ \E c \in WideCapacities, f \in BOOLEAN : Construct(c, f)
    \/ \E element \in WideElements : WideContains(element)

CtorSpec == InitCtor /\ [][NextCtor]_vars

(***************************************************************************)
(* Concurrent calls on one index.  The index holds some sets when the      *)
(* calls begin; the threads then take their steps in any order.            *)
(***************************************************************************)
\* the value a client stores under a set
ValueOf(bs) == 1 + (size(bs) % NumValues)

\* the index after add(ValueOf(bs), bs) for every set bs of B
RECURSIVE Filled(_, _, _)
Filled(cap, t, B) ==
    IF B = {} THEN t
    ELSE LET bs == CHOOSE b \in B : TRUE IN
         Filled(cap, searcher_add(cap, t, ValueOf(bs), bs).tree, B \ {bs})

InitShared ==
    /\ \E cap \in 0..MaxIndexCapacity :
          \E B \in SUBSET SetsOfCapacity(cap) :
              /\ Cardinality(B) <= MaxStoredSets
              /\ capacity_ = bs_searcher(cap).capacity_
              /\ tree = Filled(cap, bs_searcher(cap).tree, B)
              /\ stored = SetToBag({Entry(ValueOf(bs), bs) : bs \in B})
    /\ s = binary_set_default
    /\ wide = wide_default
    /\ finders = NoFinders
    /\ remover = IdleRemover

\* a thread calls searcher.find_subsets(bs)
FindStart(bs) ==
    /\ BagCardinality(finders) < NumFinders
    /\ finders' \in find_start(tree, capacity_, finders, bs)
    /\ UNCHANGED <<capacity_, tree, stored, s, wide, remover>>

\* the call me runs one iteration of the level loop
FindLevel(me) ==
    /\ me.pc = "level"
    /\ me.i < capacity_ /\ me.current_level # <<>>
    /\ finders' \in find_level(tree, capacity_, finders, me)
    /\ UNCHANGED <<capacity_, tree, stored, s, wide, remover>>

\* the call me leaves the level loop, collects the values and returns
FindCollect(me) ==
    /\ me.pc = "level"
    /\ ~(me.i < capacity_ /\ me.current_level # <<>>)
    /\ finders' \in find_collect(tree, capacity_, finders, me)
    /\ UNCHANGED <<capacity_, tree, stored, s, wide, remover>>

\* several threads query an index that nothing modifies
NextReaders ==
    \/ \E bs \in SetsOfCapacity(capacity_) : FindStart(bs)
    \/ \E me \in BagToSet(finders) : FindLevel(me)
    \/ \E me \in BagToSet(finders) : FindCollect(me)

ReadersSpec == InitShared /\ [][NextReaders]_vars

\* a thread calls searcher.remove(value, bs) and runs it up to the pruning loop
RemoveStart(value, bs) ==
    /\ remover.pc = "idle"
    /\ LET r == remove_start(capacity_, tree, value, bs) IN
          /\ tree' = r.tree
          /\ remover' = r.remover
          /\ stored' = IF r.remover.ret
                       THEN stored (-) SetToBag({Entry(value, bs)})
                       ELSE stored
    /\ UNCHANGED <<capacity_, s, wide, finders>>

\* the removing thread runs one iteration of the pruning loop
RemovePrune ==
    /\ remover.pc = "prune"
    /\ LET r == remove_prune(tree, remover) IN
          /\ tree' = r.tree
          /\ remover' = r.remover
    /\ UNCHANGED <<capacity_, stored, s, wide, finders>>

\* one thread queries the index while another removes from it, with no lock
NextRace ==
    \/ \E bs \in SetsOfCapacity(capacity_) : finders = NoFinders /\ FindStart(bs)
    \/ \E me \in BagToSet(finders) : FindLevel(me)
    \/ \E me \in BagToSet(finders) : FindCollect(me)
    \/ \E value \in Values, bs \in SetsOfCapacity(capacity_) : RemoveStart(value, bs)
    \/ RemovePrune

RaceSpec == InitShared /\ [][NextRace]_vars

(***************************************************************************)
(* What the claims observe.                                                *)
(***************************************************************************)
\* how often v occurs in a sequence
Occurrences(seq, v) == Cardinality({k \in 1..Len(seq) : seq[k] = v})

\* the path of the set with elements E in an index of capacity cap
PathOf(cap, E) == [i \in 1..cap |-> (i - 1) \in E]

\* the set whose path is p
SetOfPath(p) == {i \in 0..(Len(p) - 1) : p[i + 1]}

\* the i-th ancestor-or-self of path p: its first i branches
Prefix(p, i) == SubSeq(p, 1, i)

\* the values at the end of the path of E, none when the node does not exist
LeafValues(cap, t, E) == IF PathOf(cap, E) \in DOMAIN t THEN t[PathOf(cap, E)] ELSE <<>>

\* how many stored pairs have value v and a set among SS
RECURSIVE StoredUnder(_, _)
StoredUnder(v, SS) ==
    IF SS = {} THEN 0
    ELSE LET E == CHOOSE x \in SS : TRUE
         IN CopiesIn(<<v, E>>, stored) + StoredUnder(v, SS \ {E})

Universe == 0..(capacity_ - 1)

FullQuery == SetOf(capacity_, Universe)

\* a node without children
Childless(t, p) == get_left(t, p) = NULL /\ get_right(t, p) = NULL

(***************************************************************************)
(* C1.  After any sequence of add and remove calls, find_subsets(q)        *)
(* returns, as a multiset, exactly the values of the stored pairs whose    *)
(* set is a subset of q, one entry per stored instance.                    *)
(***************************************************************************)
C1_FindSubsetsReturnsStoredSubsets ==
    \A q \in SetsOfCapacity(capacity_) :
        LET r == find_subsets(capacity_, tree, q) IN
        /\ r.err = "none"
        /\ \A k \in 1..Len(r.ret) : r.ret[k] \in Values
        /\ \A v \in Values :
               Occurrences(r.ret, v) = StoredUnder(v, SUBSET Elements(q))

\* a remove that prunes, after which a query returns what is left under
\* the subsets of the query and leaves out a pair stored under another set
C1_Witness ==
    \E q \in SetsOfCapacity(capacity_), v \in Values, bs \in SetsOfCapacity(capacity_) :
        LET r == searcher_remove(capacity_, tree, v, bs) IN
        /\ capacity_ = MaxIndexCapacity
        /\ BagCardinality(stored) = 3
        /\ r.ret
        /\ DOMAIN r.tree # DOMAIN tree
        /\ Len(find_subsets(capacity_, tree, q).ret) = 2
        /\ Len(find_subsets(capacity_, r.tree, q).ret) = 1
        /\ \E e \in BagToSet(stored) : ~(e[2] \subseteq Elements(q))

(***************************************************************************)
(* C2.  remove(value, set) returns true exactly when an instance of the    *)
(* pair is stored at the call, and a remove that returns false leaves the  *)
(* index unchanged.                                                        *)
(***************************************************************************)
C2_RemoveTrueIffStored ==
    \A v \in Values, bs \in SetsOfCapacity(capacity_) :
        LET r == searcher_remove(capacity_, tree, v, bs) IN
        /\ r.err = "none"
        /\ r.ret <=> BagIn(Entry(v, bs), stored)
        /\ ~r.ret => r.tree = tree

\* one remove fails at a missing path, one at a terminal node that holds
\* only other values, and one succeeds
C2_Witness ==
    /\ capacity_ = MaxIndexCapacity
    /\ \E v \in Values, bs \in SetsOfCapacity(capacity_) :
          /\ PathOf(capacity_, Elements(bs)) \notin DOMAIN tree
          /\ ~searcher_remove(capacity_, tree, v, bs).ret
    /\ \E v \in Values, bs \in SetsOfCapacity(capacity_) :
          /\ LeafValues(capacity_, tree, Elements(bs)) # <<>>
          /\ ~searcher_remove(capacity_, tree, v, bs).ret
          /\ searcher_remove(capacity_, tree, v, bs).tree = tree
    /\ \E v \in Values, bs \in SetsOfCapacity(capacity_) :
          searcher_remove(capacity_, tree, v, bs).ret

(***************************************************************************)
(* C3.  A successful remove(value, set) lowers the multiplicity of that    *)
(* pair by exactly one and leaves the multiplicity of every other pair     *)
(* unchanged, also when it prunes; what is left stays findable.            *)
(***************************************************************************)
C3_RemoveTakesExactlyOne ==
    LET before == find_subsets(capacity_, tree, FullQuery).ret IN
    \A v \in Values, bs \in SetsOfCapacity(capacity_) :
        LET r == searcher_remove(capacity_, tree, v, bs)
            after == find_subsets(capacity_, r.tree, FullQuery).ret
        IN r.ret =>
            /\ \A v2 \in Values, E2 \in SUBSET Universe :
                   Occurrences(LeafValues(capacity_, r.tree, E2), v2)
                     = Occurrences(LeafValues(capacity_, tree, E2), v2)
                         - (IF v2 = v /\ E2 = Elements(bs) THEN 1 ELSE 0)
            /\ \A v2 \in Values :
                   Occurrences(after, v2)
                     = Occurrences(before, v2) - (IF v2 = v THEN 1 ELSE 0)

\* a pair stored twice beside a pair under a sibling path: removing one
\* instance leaves the other and the sibling findable
C3_Witness ==
    \E v \in Values, bs \in SetsOfCapacity(capacity_) :
        LET r == searcher_remove(capacity_, tree, v, bs)
            after == find_subsets(capacity_, r.tree, FullQuery).ret
        IN /\ capacity_ = MaxIndexCapacity
           /\ CopiesIn(Entry(v, bs), stored) = 2
           /\ BagCardinality(stored) = 3
           /\ \E e \in BagToSet(stored) : e[2] # Elements(bs)
           /\ r.ret
           /\ Len(after) = 2
           /\ Occurrences(after, v) = 1

(***************************************************************************)
(* C4.  In every reachable state the root exists, and every other node has *)
(* a non-empty value list or at least one child.                           *)
(***************************************************************************)
C4_RootKeptNoDeadNodes ==
    /\ Root \in DOMAIN tree
    /\ \A p \in DOMAIN tree \ {Root} : tree[p] # <<>> \/ ~Childless(tree, p)

\* an index holding one entry, which a remove is about to empty down to
\* the root
C4_Witness ==
    \E v \in Values, bs \in SetsOfCapacity(capacity_) :
        LET r == searcher_remove(capacity_, tree, v, bs) IN
        /\ capacity_ = MaxIndexCapacity
        /\ Cardinality(DOMAIN tree) = capacity_ + 1
        /\ r.ret
        /\ r.tree = EmptyTree

(***************************************************************************)
(* C5.  After remove has taken away the last value stored under a set, in  *)
(* an index of capacity at least 1, the terminal node of the set's path    *)
(* and then each ancestor in turn is detached, up to the first ancestor    *)
(* that has a value or a remaining child, or the root; exactly those nodes *)
(* are gone and every other node is as it was.                             *)
(***************************************************************************)
\* the depth of the ancestor of path p at which the upward walk stops in t:
\* the deepest proper ancestor that is the root, or holds a value, or has a
\* child off the path
StopDepth(t, p) ==
    LET Stops(k) == \/ k = 0
                    \/ t[Prefix(p, k)] # <<>>
                    \/ \E b \in BOOLEAN :
                          /\ Append(Prefix(p, k), b) # Prefix(p, k + 1)
                          /\ Append(Prefix(p, k), b) \in DOMAIN t
    IN CHOOSE k \in 0..(Len(p) - 1) :
           Stops(k) /\ \A j \in (k + 1)..(Len(p) - 1) : ~Stops(j)

\* remove(v, bs) succeeds on t and takes the only value at the end of bs's path
TakesLastValue(t, v, bs) ==
    /\ searcher_remove(capacity_, t, v, bs).ret
    /\ Len(LeafValues(capacity_, t, Elements(bs))) = 1

PrunedAsWalked(v, bs) ==
    LET r == searcher_remove(capacity_, tree, v, bs)
        p == PathOf(capacity_, Elements(bs))
        gone == {Prefix(p, j) : j \in (StopDepth(tree, p) + 1)..Len(p)}
    IN /\ p \notin DOMAIN r.tree
       /\ DOMAIN r.tree = DOMAIN tree \ gone
       /\ \A n \in DOMAIN r.tree : r.tree[n] = tree[n]
       /\ \A n \in gone : n = p \/ tree[n] = <<>>
       /\ \A n \in gone, b \in BOOLEAN :
              Append(n, b) \in DOMAIN tree => Append(n, b) \in gone

C5_PruneWalkFromCapacityOne ==
    capacity_ >= 1 =>
        \A v \in Values, bs \in SetsOfCapacity(capacity_) :
            TakesLastValue(tree, v, bs) => PrunedAsWalked(v, bs)

\* the claim as stated, for every capacity: with capacity 0 the terminal node
\* is the root
C5_PruneWalkAnyCapacity ==
    \A v \in Values, bs \in SetsOfCapacity(capacity_) :
        TakesLastValue(tree, v, bs) => PrunedAsWalked(v, bs)

\* the walk detaches the terminal node and stops at an ancestor below the
\* root that still has another child
C5_Witness ==
    \E v \in Values, bs \in SetsOfCapacity(capacity_) :
        LET r == searcher_remove(capacity_, tree, v, bs)
            p == PathOf(capacity_, Elements(bs))
        IN /\ capacity_ = MaxIndexCapacity
           /\ TakesLastValue(tree, v, bs)
           /\ StopDepth(tree, p) >= 1
           /\ Cardinality(DOMAIN tree \ DOMAIN r.tree) = 1
           /\ \E w \in Values, cs \in SetsOfCapacity(capacity_) :
                  /\ TakesLastValue(tree, w, cs)
                  /\ Cardinality(DOMAIN tree \ DOMAIN
                         searcher_remove(capacity_, tree, w, cs).tree) = capacity_

(***************************************************************************)
(* C6.  add, remove and find_subsets called with a set whose capacity      *)
(* differs from the index's fail with invalid_argument and leave the index *)
(* unchanged.                                                              *)
(***************************************************************************)
C6_CapacityMismatchRejected ==
    \A v \in Values, bs \in Mismatched(capacity_) :
        /\ searcher_add(capacity_, tree, v, bs).err = "invalid_argument"
        /\ searcher_add(capacity_, tree, v, bs).tree = tree
        /\ searcher_remove(capacity_, tree, v, bs).err = "invalid_argument"
        /\ searcher_remove(capacity_, tree, v, bs).tree = tree
        /\ ~searcher_remove(capacity_, tree, v, bs).ret
        /\ find_subsets(capacity_, tree, bs).err = "invalid_argument"
        /\ find_subsets(capacity_, tree, bs).ret = <<>>

\* a populated index is handed a larger and a smaller set, and a
\* default-constructed one
C6_Witness ==
    /\ capacity_ = 1
    /\ BagCardinality(stored) = 2
    /\ \E bs \in Mismatched(capacity_) :
          capacity(bs) > capacity_ /\ Elements(bs) # {}
              /\ searcher_add(capacity_, tree, 1, bs).err = "invalid_argument"
    /\ \E bs \in Mismatched(capacity_) :
          bs = binary_set_default
              /\ find_subsets(capacity_, tree, bs).err = "invalid_argument"

(***************************************************************************)
(* C7.  Every childless node other than the root lies at depth capacity,   *)
(* no node lies deeper, only nodes at depth capacity hold values, and the  *)
(* node at the end of a path holds exactly the values stored with the set  *)
(* of that path.                                                           *)
(***************************************************************************)
C7_DepthIsCapacity ==
    /\ \A p \in DOMAIN tree :
          /\ Len(p) <= capacity_
          /\ (p # Root /\ Childless(tree, p)) => Len(p) = capacity_
          /\ tree[p] # <<>> => Len(p) = capacity_
          /\ \A k \in 1..Len(tree[p]) : tree[p][k] \in Values
          /\ Len(p) = capacity_ =>
                 \A v \in Values :
                     Occurrences(tree[p], v) = CopiesIn(<<v, SetOfPath(p)>>, stored)
    /\ \A e \in BagToSet(stored) : PathOf(capacity_, e[2]) \in DOMAIN tree

\* three leaves at depth capacity under both children of the root
C7_Witness ==
    /\ capacity_ = MaxIndexCapacity
    /\ capacity_ >= 2
    /\ Cardinality({p \in DOMAIN tree : Len(p) = capacity_ /\ tree[p] # <<>>}) = 3
    /\ left(Root) \in DOMAIN tree
    /\ right(Root) \in DOMAIN tree

(***************************************************************************)
(* C8.  In every state a binary_set reaches by construction, add, remove,  *)
(* clear, fill and the in-place operators, and for every result of union,  *)
(* intersection, difference and complement (each becomes s), size() is the *)
(* number of elements i below capacity with contains(i).                   *)
(***************************************************************************)
C8_SizeIsPopulation == size(s) = Cardinality(Elements(s))

\* a set over two bytes that a difference and an intersection shrink and a
\* complement turns over
C8_Witness ==
    /\ capacity(s) = MaxSetCapacity
    /\ contains(s, 0).ret
    /\ contains(s, capacity(s) - 1).ret
    /\ size(s) = 3
    /\ \E other \in Operands(capacity(s)) :
          /\ size(op_minus(s, other).ret) = 2
          /\ size(op_and_assign(s, other).self) = 1
    /\ size(op_not(s).ret) = capacity(s) - 3

(***************************************************************************)
(* C9.  In every reachable binary_set state all bits of the last storage   *)
(* byte at positions at or above capacity are zero.                        *)
(***************************************************************************)
C9_PadBitsZero ==
    LET n == Len(s.set_) IN
    n > 0 =>
        \A k \in 0..7 :
            8 * (n - 1) + k >= capacity(s) => BitAnd(s.set_[n], Shl1(k)) = 0

\* a filled set whose capacity is no multiple of 8, which is also the
\* complement of the empty set and a difference of itself
C9_Witness ==
    /\ capacity(s) > 8
    /\ capacity(s) % 8 # 0
    /\ s = fill(s).self
    /\ s = binary_set(capacity(s), TRUE).self
    /\ s = op_not(clear(s).self).ret
    /\ s = op_minus(s, clear(s).self).ret
    /\ s.set_[Len(s.set_)] # 0

(***************************************************************************)
(* C10.  For any e below capacity, s.add(e) followed by s.remove(e) leaves *)
(* contains(e) false; size() is what it was before the add when e was      *)
(* absent then, and one less when e was present.                           *)
(***************************************************************************)
C10_AddThenRemove ==
    \A e \in 0..(capacity(s) - 1) :
        LET a == add(s, e)
            r == remove(a.self, e)
        IN /\ a.err = "none" /\ r.err = "none"
           /\ r.ret
           /\ ~contains(r.self, e).ret
           /\ size(r.self) = size(s) - (IF contains(s, e).ret THEN 1 ELSE 0)
           /\ ~contains(s, e).ret => r.self = s

\* the claim as stated: the size is restored whatever s held
C10_AddThenRemoveRestoresSize ==
    \A e \in 0..(capacity(s) - 1) :
        LET r == remove(add(s, e).self, e)
        IN ~contains(r.self, e).ret /\ size(r.self) = size(s)

\* a set over two bytes with an absent element, which the add inserts, and a
\* present one, which the add finds
C10_Witness ==
    /\ capacity(s) = MaxSetCapacity
    /\ \E e \in 0..(capacity(s) - 1) :
          add(s, e).ret /\ remove(add(s, e).self, e).self = s
    /\ \E e \in 0..(capacity(s) - 1) :
          ~add(s, e).ret /\ size(remove(add(s, e).self, e).self) = size(s) - 1

(***************************************************************************)
(* C11.  For any e below capacity, add(e) returns true exactly when e was  *)
(* absent, and a second add(e) right after the first returns false and     *)
(* leaves the set, the membership of every element and the size, as the    *)
(* first call left it.                                                     *)
(***************************************************************************)
C11_AddIdempotent ==
    \A e \in 0..(capacity(s) - 1) :
        LET first == add(s, e)
            second == add(first.self, e)
        IN /\ first.err = "none" /\ second.err = "none"
           /\ first.ret <=> ~contains(s, e).ret
           /\ contains(first.self, e).ret
           /\ ~second.ret
           /\ Elements(second.self) = Elements(first.self)
           /\ size(second.self) = size(first.self)
           /\ second.self = first.self

\* a set over two bytes: an element of the second byte is absent and the
\* first add inserts it, an element of the first byte is present already
C11_Witness ==
    /\ capacity(s) = MaxSetCapacity
    /\ \E e \in 8..(capacity(s) - 1) :
          /\ add(s, e).ret
          /\ size(add(s, e).self) = size(s) + 1
          /\ ~add(add(s, e).self, e).ret
    /\ \E e \in 0..7 :
          ~add(s, e).ret /\ add(s, e).self = s

(***************************************************************************)
(* C12.  On a set of capacity 0, add, remove and contains(element) fail    *)
(* with a domain error for every element; on a set of capacity c > 0 they  *)
(* fail with out-of-range for every element >= c; the two failures differ  *)
(* and the set is unchanged by the failing call.                           *)
(***************************************************************************)
C12_ElementErrors ==
    \A e \in 0..(MaxSetCapacity + 2) :
        LET calls == {add(s, e), remove(s, e), contains(s, e)} IN
        /\ capacity(s) = 0 =>
               \A r \in calls : r.err = "domain_error" /\ r.self = s
        /\ (capacity(s) > 0 /\ e >= capacity(s)) =>
               \A r \in calls : r.err = "out_of_range" /\ r.self = s
        /\ (capacity(s) > 0 /\ e < capacity(s)) =>
               \A r \in calls : r.err = "none"

\* a populated set is asked for the element equal to its capacity and for a
\* larger one; the default-constructed set fails differently
C12_Witness ==
    /\ capacity(s) = MaxSetCapacity
    /\ size(s) = 2
    /\ add(s, capacity(s)).err = "out_of_range"
    /\ remove(s, capacity(s) + 1).err = "out_of_range"
    /\ contains(s, capacity(s)).err = "out_of_range"
    /\ add(clear(binary_set_default).self, 0).err = "domain_error"
    /\ add(s, capacity(s)).err # add(binary_set_default, capacity(s)).err

(***************************************************************************)
(* C13.  &, |, -, &=, |=, -=, ==, !=, intersects and contains(set) called  *)
(* with an operand of another capacity fail with invalid_argument and      *)
(* leave the object they are called on as it was (the other operand is a   *)
(* const reference).                                                       *)
(***************************************************************************)
BinaryCalls(self, other) ==
    <<op_and(self, other), op_or(self, other), op_minus(self, other),
      op_and_assign(self, other), op_or_assign(self, other),
      op_minus_assign(self, other),
      op_eq(self, other), op_neq(self, other),
      intersects(self, other), contains_set(self, other)>>

C13_CapacityMismatchOnSets ==
    \A other \in Mismatched(capacity(s)) :
        LET calls == BinaryCalls(s, other) IN
        \A k \in 1..Len(calls) :
            calls[k].err = "invalid_argument" /\ calls[k].self = s

\* a populated set of two bytes meets a full set of one byte and a full set
\* of one more element
C13_Witness ==
    /\ capacity(s) = MaxSetCapacity
    /\ size(s) = 2
    /\ \E other \in Mismatched(capacity(s)) :
          /\ Len(other.set_) < Len(s.set_)
          /\ size(other) > 0
          /\ op_and_assign(s, other).err = "invalid_argument"
          /\ op_and_assign(s, other).self = s
    /\ \E other \in Mismatched(capacity(s)) :
          /\ capacity(other) > capacity(s)
          /\ size(other) > 0
          /\ op_eq(s, other).err = "invalid_argument"
          /\ op_or_assign(s, other).self = s

(***************************************************************************)
(* C14.  For every set s of capacity > 0, !(!s) == s, !s holds exactly the *)
(* elements below capacity that s does not hold, and s is unchanged.       *)
(***************************************************************************)
C14_ComplementInvolution ==
    capacity(s) > 0 =>
        LET once == op_not(s)
            twice == op_not(once.ret)
            same == op_eq(twice.ret, s)
        IN /\ once.err = "none" /\ twice.err = "none" /\ same.err = "none"
           /\ same.ret
           /\ capacity(once.ret) = capacity(s)
           /\ Elements(once.ret) = (0..(capacity(s) - 1)) \ Elements(s)
           /\ once.self = s

\* a set whose capacity is a multiple of 8, holding some and lacking some
\* elements
C14_Witness ==
    /\ capacity(s) = 8
    /\ size(s) = 3
    /\ contains(s, 7).ret
    /\ size(op_not(s).ret) = 5
    /\ ~contains(op_not(s).ret, 7).ret
    /\ op_eq(op_not(op_not(s).ret).ret, s).ret

(***************************************************************************)
(* C15.  For all sets a and b of the same capacity > 0,                    *)
(* !(a & b) == (!a) | (!b) under operator==.                               *)
(***************************************************************************)
C15_DeMorgan ==
    capacity(s) > 0 =>
        \A b \in Operands(capacity(s)) :
            LET lhs == op_not(op_and(s, b).ret)
                rhs == op_or(op_not(s).ret, op_not(b).ret)
                same == op_eq(lhs.ret, rhs.ret)
            IN /\ lhs.err = "none" /\ rhs.err = "none" /\ same.err = "none"
               /\ same.ret

\* two sets over two bytes that share elements and each lack one element
\* that the other holds
C15_Witness ==
    /\ capacity(s) = MaxSetCapacity
    /\ \E b \in Operands(capacity(s)) :
          /\ Elements(s) \cap Elements(b) # {}
          /\ Elements(s) \ Elements(b) # {}
          /\ Elements(b) \ Elements(s) # {}
          /\ size(op_not(op_and(s, b).ret).ret) = 2
          /\ op_eq(op_not(op_and(s, b).ret).ret,
                   op_or(op_not(s).ret, op_not(b).ret).ret).ret

(***************************************************************************)
(* C16.  For a and b of the same capacity, a & b, a | b and a - b hold i   *)
(* iff i is in a and in b, in a or in b, in a and not in b, and a is left  *)
(* as it was; &=, |= and -= leave the left operand equal to the result of  *)
(* &, | and -.                                                             *)
(***************************************************************************)
C16_SetAlgebra ==
    LET A == Elements(s) IN
    \A b \in Operands(capacity(s)) :
        LET B == Elements(b)
            i == op_and(s, b)
            u == op_or(s, b)
            d == op_minus(s, b)
            ia == op_and_assign(s, b)
            ua == op_or_assign(s, b)
            da == op_minus_assign(s, b)
        IN /\ i.err = "none" /\ u.err = "none" /\ d.err = "none"
           /\ ia.err = "none" /\ ua.err = "none" /\ da.err = "none"
           /\ Elements(i.ret) = A \cap B
           /\ Elements(u.ret) = A \cup B
           /\ Elements(d.ret) = A \ B
           /\ i.self = s /\ u.self = s /\ d.self = s
           /\ ia.self = i.ret /\ ua.self = u.ret /\ da.self = d.ret

\* the three results differ from each other and from both operands
C16_Witness ==
    /\ capacity(s) = MaxSetCapacity
    /\ \E b \in Operands(capacity(s)) :
          LET i == op_and(s, b).ret
              u == op_or(s, b).ret
              d == op_minus(s, b).ret
          IN /\ Cardinality({s, b, i, u, d}) = 5
             /\ size(i) > 0 /\ size(d) > 0
             /\ op_minus_assign(s, b).self = d

(***************************************************************************)
(* C17.  For sets of the same capacity, self.contains(other) is true iff   *)
(* every element of other is an element of self; it is true for the empty  *)
(* other and for other = self; and an index that stores other returns it   *)
(* for the query self exactly when self.contains(other).                   *)
(***************************************************************************)
C17_ContainsSetIsSuperset ==
    \A other \in Operands(capacity(s)) \cup {s} :
        LET r == contains_set(s, other)
            index == searcher_add(capacity(s), EmptyTree, 1, other)
            found == find_subsets(capacity(s), index.tree, s)
        IN /\ r.err = "none" /\ index.err = "none" /\ found.err = "none"
           /\ r.ret <=> Elements(other) \subseteq Elements(s)
           /\ Elements(other) = {} => r.ret
           /\ other = s => r.ret
           /\ found.ret = (IF r.ret THEN <<1>> ELSE <<>>)

\* a set over two bytes that contains one operand and not another, the
\* difference lying in the second byte
C17_Witness ==
    /\ capacity(s) = MaxSetCapacity
    /\ size(s) = 2
    /\ \E other \in Operands(capacity(s)) :
          size(other) = 1 /\ contains_set(s, other).ret
    /\ \E other \in Operands(capacity(s)) :
          /\ ~contains_set(s, other).ret
          /\ Elements(other) \ Elements(s) = {capacity(s) - 1}

(***************************************************************************)
(* C18.  In every reachable state of a set, the default-constructed one    *)
(* and the default-constructed one after fill() included, empty() is true  *)
(* iff no element below capacity is contained, iff size() is 0.            *)
(***************************************************************************)
C18_EmptyIffNoElement ==
    /\ empty(s) <=> Elements(s) = {}
    /\ empty(s) <=> size(s) = 0
    /\ capacity(s) = 0 => empty(fill(s).self) /\ size(fill(s).self) = 0

\* a set that holds one element, in its second byte, and is empty once the
\* element is removed
C18_Witness ==
    /\ capacity(s) = MaxSetCapacity
    /\ ~empty(s)
    /\ Elements(s) = {capacity(s) - 1}
    /\ empty(remove(s, capacity(s) - 1).self)
    /\ empty(fill(binary_set_default).self)

(***************************************************************************)
(* C19.  Iterating a set from begin() yields exactly the contained         *)
(* elements, each once, in strictly ascending order; after size() advances *)
(* the iterator equals end(), at position capacity; an iterator created at *)
(* an absent position below capacity starts at the next contained element  *)
(* or at end().  On a set of capacity > 0 sparse() returns the same        *)
(* sequence; on a set of capacity 0 it fails with a domain error.          *)
(***************************************************************************)
\* the iterator after n increments
RECURSIVE Advanced(_, _)
Advanced(it, n) == IF n = 0 THEN it ELSE Advanced(increment(it), n - 1)

\* the first contained element after pos, capacity when there is none
NextContained(bs, pos) ==
    LET later == {e \in Elements(bs) : e > pos} IN
    IF later = {} THEN capacity(bs)
    ELSE CHOOSE e \in later : \A f \in later : e <= f

IterationInOrder ==
    LET seq == visit(begin(s), end(s)) IN
    /\ \A k \in 1..(Len(seq) - 1) : seq[k] < seq[k + 1]
    /\ {seq[k] : k \in 1..Len(seq)} = Elements(s)
    /\ Len(seq) = size(s)
    /\ iterator_eq(Advanced(begin(s), size(s)), end(s))
    /\ deref(Advanced(begin(s), size(s))) = capacity(s)
    /\ \A pos \in 0..(capacity(s) - 1) :
           ~contains(s, pos).ret => deref(iterator(s, pos)) = NextContained(s, pos)

C19_IterationAndSparse ==
    /\ IterationInOrder
    /\ capacity(s) > 0 =>
           sparse(s).err = "none" /\ sparse(s).ret = visit(begin(s), end(s))
    /\ capacity(s) = 0 => sparse(s).err = "domain_error"

\* the claim as stated: sparse() returns what the iteration yields, for
\* every set
C19_SparseIsIterationAlways ==
    /\ IterationInOrder
    /\ sparse(s).err = "none" /\ sparse(s).ret = visit(begin(s), end(s))

\* a set over two bytes without its first and its last element, with a gap
\* between two contained elements
C19_Witness ==
    /\ capacity(s) = MaxSetCapacity
    /\ ~contains(s, 0).ret
    /\ ~contains(s, capacity(s) - 1).ret
    /\ contains(s, capacity(s) - 2).ret
    /\ size(s) = 3
    /\ deref(begin(s)) > 0
    /\ \E k \in 1..2 : sparse(s).ret[k + 1] > sparse(s).ret[k] + 1
    /\ deref(iterator(s, capacity(s) - 1)) = capacity(s)

(***************************************************************************)
(* C20.  A set constructed with capacity c, for every c from 1 to          *)
(* 2^32 - 1, has a store of exactly ceil(c / 8) bytes, so that every       *)
(* element e < c addresses a byte inside the store.                        *)
(***************************************************************************)
\* ceil(c / 8) of an unsigned c, a number up to 2^29
CeilDiv8(c) == c.hi * (UIntHalf \div 8) + (c.lo + 7) \div 8

C20_StoreIsCeilOfCapacity ==
    (wide.err = "none" /\ wide.capacity_ # UInt(0, 0)) =>
        /\ wide.bytes = CeilDiv8(wide.capacity_)
        /\ \A e \in WideElements :
               UIntLess(e, wide.capacity_) => UIntDiv8(e) < wide.bytes

(***************************************************************************)
(* C22.  add(value, set) appends value as the last entry of the list of    *)
(* the node at the end of set's path, creates exactly the nodes of that    *)
(* path that did not exist, and leaves the list and the children of every  *)
(* other node as they were; a pair stored already gets a second entry.     *)
(***************************************************************************)
C22_AddFrame ==
    \A v \in Values, bs \in SetsOfCapacity(capacity_) :
        LET r == searcher_add(capacity_, tree, v, bs)
            p == PathOf(capacity_, Elements(bs))
            onPath == {Prefix(p, k) : k \in 0..Len(p)}
        IN /\ r.err = "none"
           /\ DOMAIN r.tree = DOMAIN tree \cup onPath
           /\ r.tree[p] = Append(LeafValues(capacity_, tree, Elements(bs)), v)
           /\ \A n \in DOMAIN r.tree \ {p} :
                  r.tree[n] = (IF n \in DOMAIN tree THEN tree[n] ELSE <<>>)
           /\ \A n \in DOMAIN tree \ onPath, b \in BOOLEAN :
                  Append(n, b) \in DOMAIN r.tree <=> Append(n, b) \in DOMAIN tree
           /\ Occurrences(r.tree[p], v)
                  = Occurrences(LeafValues(capacity_, tree, Elements(bs)), v) + 1

\* an add that creates the last node of a path whose first node exists, and
\* an add of a pair that is stored already
C22_Witness ==
    /\ capacity_ = MaxIndexCapacity
    /\ capacity_ >= 2
    /\ \E v \in Values, bs \in SetsOfCapacity(capacity_) :
          LET r == searcher_add(capacity_, tree, v, bs)
              p == PathOf(capacity_, Elements(bs))
          IN /\ Prefix(p, 1) \in DOMAIN tree
             /\ p \notin DOMAIN tree
             /\ Cardinality(DOMAIN r.tree) > Cardinality(DOMAIN tree)
    /\ \E v \in Values, bs \in SetsOfCapacity(capacity_) :
          /\ BagIn(Entry(v, bs), stored)
          /\ Occurrences(searcher_add(capacity_, tree, v, bs).tree[
                 PathOf(capacity_, Elements(bs))], v) = 2

(***************************************************************************)
(* C24.  On a successful remove(value, set), with L the list of the        *)
(* terminal node, n its length and k the smallest index with L[k] = value  *)
(* (indices from 0), the new list has length n - 1 and equals L at every   *)
(* index below n - 1, except that index k holds L[n - 1] when k < n - 1.   *)
(***************************************************************************)
C24_SwapAndPopExact ==
    \A v \in Values, bs \in SetsOfCapacity(capacity_) :
        LET r == searcher_remove(capacity_, tree, v, bs)
            L == LeafValues(capacity_, tree, Elements(bs))
            new == LeafValues(capacity_, r.tree, Elements(bs))
            n == Len(L)
            k == CHOOSE j \in 1..n : L[j] = v /\ \A h \in 1..(j - 1) : L[h] # v
        IN r.ret =>
            /\ Len(new) = n - 1
            /\ \A j \in 1..(n - 1) :
                   new[j] = (IF j = k THEN L[n] ELSE L[j])

\* the first of three entries is removed and the third, a different value
\* from the second, takes its place
C24_Witness ==
    \E v \in Values, bs \in SetsOfCapacity(capacity_) :
        LET r == searcher_remove(capacity_, tree, v, bs)
            L == LeafValues(capacity_, tree, Elements(bs))
            new == LeafValues(capacity_, r.tree, Elements(bs))
        IN /\ capacity_ = MaxIndexCapacity
           /\ Len(L) = 3
           /\ L[1] = v /\ L[2] # v /\ L[3] = v
           /\ r.ret
           /\ new = <<L[3], L[2]>>

(***************************************************************************)
(* C25.  An index of capacity 0 works with default-constructed sets: add   *)
(* stores the value in the root's list, find_subsets returns all stored    *)
(* values, remove returns true for a stored value and false for an absent  *)
(* one, and the root is kept when its list becomes empty.                  *)
(***************************************************************************)
C25_CapacityZeroIndex ==
    capacity_ = 0 =>
        /\ DOMAIN tree = {Root}
        /\ find_subsets(capacity_, tree, binary_set_default).err = "none"
        /\ find_subsets(capacity_, tree, binary_set_default).ret = tree[Root]
        /\ \A v \in Values :
               LET a == searcher_add(capacity_, tree, v, binary_set_default)
                   r == searcher_remove(capacity_, tree, v, binary_set_default)
               IN /\ a.err = "none"
                  /\ DOMAIN a.tree = {Root}
                  /\ a.tree[Root] = Append(tree[Root], v)
                  /\ r.err = "none"
                  /\ r.ret <=> Occurrences(tree[Root], v) > 0
                  /\ Root \in DOMAIN r.tree
                  /\ ~r.ret => r.tree = tree
                  /\ r.ret => Len(r.tree[Root]) = Len(tree[Root]) - 1

\* a capacity-0 index that holds one value: removing it empties the root,
\* removing another value fails
C25_Witness ==
    /\ capacity_ = 0
    /\ Len(tree[Root]) = 1
    /\ \E v \in Values :
          /\ searcher_remove(capacity_, tree, v, binary_set_default).ret
          /\ searcher_remove(capacity_, tree, v, binary_set_default).tree = EmptyTree
    /\ \E v \in Values : ~searcher_remove(capacity_, tree, v, binary_set_default).ret
    /\ Len(find_subsets(capacity_, tree, binary_set_default).ret) = 1

(***************************************************************************)
(* C27.  In every reachable state a node other than the root exists at a   *)
(* path of length k, 1 <= k <= capacity, iff some stored set has exactly   *)
(* those first k presence bits: the shape of the tree is a function of the *)
(* set of stored bit patterns.                                             *)
(***************************************************************************)
StoredSets == {e[2] : e \in BagToSet(stored)}

C27_ShapeIsStoredPrefixes ==
    DOMAIN tree \ {Root}
        = {Prefix(PathOf(capacity_, E), k) : E \in StoredSets, k \in 1..capacity_}

\* after a remove has pruned: two sets are stored, their paths part below
\* the root's child, and another path that was there is gone
C27_Witness ==
    /\ capacity_ = MaxIndexCapacity
    /\ capacity_ >= 2
    /\ Cardinality(StoredSets) = 2
    /\ Cardinality(DOMAIN tree) = capacity_ + 2
    /\ \E v \in Values, bs \in SetsOfCapacity(capacity_) :
          LET r == searcher_remove(capacity_, tree, v, bs) IN
          /\ r.ret
          /\ Cardinality(DOMAIN r.tree) = capacity_ + 1

(***************************************************************************)
(* C28.  For any reachable index and any (value, set) of the index's       *)
(* capacity, add(value, set) followed by remove(value, set) returns true   *)
(* and leaves the index exactly as it was: the same nodes and in every     *)
(* node the same list in the same order.                                   *)
(***************************************************************************)
C28_AddThenRemoveRestores ==
    \A v \in Values, bs \in SetsOfCapacity(capacity_) :
        LET a == searcher_add(capacity_, tree, v, bs)
            r == searcher_remove(capacity_, a.tree, v, bs)
        IN /\ a.err = "none" /\ r.err = "none"
           /\ r.ret
           /\ r.tree = tree

\* the value occurs already, before another value, in the terminal list;
\* and for another set the add creates nodes that the remove frees again
C28_Witness ==
    /\ capacity_ = MaxIndexCapacity
    /\ \E v \in Values, bs \in SetsOfCapacity(capacity_) :
          LET L == LeafValues(capacity_, tree, Elements(bs)) IN
          /\ Len(L) = 2 /\ L[1] = v /\ L[2] # v
          /\ searcher_remove(capacity_, searcher_add(capacity_, tree, v, bs).tree,
                             v, bs).tree = tree
    /\ \E v \in Values, bs \in SetsOfCapacity(capacity_) :
          LET a == searcher_add(capacity_, tree, v, bs) IN
          /\ Cardinality(DOMAIN a.tree) = Cardinality(DOMAIN tree) + capacity_
          /\ searcher_remove(capacity_, a.tree, v, bs).tree = tree

(***************************************************************************)
(* C29.  find_subsets returns the lists of the matching leaves one after   *)
(* the other, the leaves in ascending lexicographic order of their bit     *)
(* patterns (position 0 first, absent before present), each list in its    *)
(* stored order; an add puts its value behind the values its leaf held.    *)
(***************************************************************************)
\* p before q in lexicographic order, FALSE before TRUE
LexLess(p, q) ==
    \E k \in 1..Len(p) :
        /\ k <= Len(q)
        /\ \A j \in 1..(k - 1) : p[j] = q[j]
        /\ ~p[k] /\ q[k]

\* the lists of the leaves in L, one after the other in lexicographic order
RECURSIVE InLexOrder(_, _)
InLexOrder(t, L) ==
    IF L = {} THEN <<>>
    ELSE LET first == CHOOSE p \in L : \A q \in L \ {p} : LexLess(p, q)
         IN t[first] \o InLexOrder(t, L \ {first})

MatchingLeaves(t, q) ==
    LET E == Elements(q) IN
    {p \in DOMAIN t : Len(p) = capacity_ /\ SetOfPath(p) \subseteq E}

C29_ResultOrder ==
    \A q \in SetsOfCapacity(capacity_) :
        /\ find_subsets(capacity_, tree, q).ret = InLexOrder(tree, MatchingLeaves(tree, q))
        /\ \A v \in Values :
               LET a == searcher_add(capacity_, tree, v, q).tree
                   p == PathOf(capacity_, Elements(q))
               IN a[p] = Append(LeafValues(capacity_, tree, Elements(q)), v)

\* three leaves under both children of the root, each with a value, all
\* matched by the full query
C29_Witness ==
    /\ capacity_ = MaxIndexCapacity
    /\ capacity_ >= 2
    /\ Cardinality(MatchingLeaves(tree, FullQuery)) = 3
    /\ left(Root) \in DOMAIN tree
    /\ right(Root) \in DOMAIN tree
    /\ \E k \in 1..2 :
          find_subsets(capacity_, tree, FullQuery).ret[k]
              # find_subsets(capacity_, tree, FullQuery).ret[k + 1]

(***************************************************************************)
(* C30.  operator! of a default-constructed set, of capacity 0, returns no *)
(* set: it fails with invalid_argument, thrown by the constructor it makes *)
(* its result with; clear(), fill(), empty(), size() and the conversion to *)
(* a string succeed on the same set and leave it empty with size 0.        *)
(***************************************************************************)
C30_ComplementOfDefaultThrows ==
    capacity(s) = 0 =>
        /\ op_not(s).err = "invalid_argument"
        /\ op_not(s).err = binary_set(capacity(s), FALSE).err
        /\ op_not(s).self = s
        /\ clear(s).err = "none" /\ fill(s).err = "none" /\ to_string(s).err = "none"
        /\ to_string(s).ret = <<"[", "]">>
        /\ \A after \in {clear(s).self, fill(s).self, to_string(s).self, s} :
               empty(after) /\ size(after) = 0 /\ capacity(after) = 0

\* the default-constructed set, beside a set of capacity 1 whose complement
\* exists
C30_Witness ==
    /\ s = binary_set_default
    /\ op_not(s).err = "invalid_argument"
    /\ empty(fill(s).self)
    /\ op_not(binary_set(1, FALSE).self).err = "none"
    /\ to_string(op_not(binary_set(1, FALSE).self).ret).ret = <<"[", "X", "]">>


\* the nodes of a sequence of nodes
NodesOf(level) == {level[k] : k \in 1..Len(level)}

\* no node occurs twice in a sequence of nodes
EachOnce(level) == \A j, k \in 1..Len(level) : level[j] = level[k] => j = k

\* path p takes the absent branch at every position that q does not contain
AbsentWhereNotIn(p, q) == \A j \in 1..Len(p) : p[j] => contains(q, j - 1).ret

\* the existing nodes at depth d on paths that q allows
AllowedAt(t, q, d) == {p \in DOMAIN t : Len(p) = d /\ AbsentWhereNotIn(p, q)}

\* C21: find_subsets calls that run concurrently, interleaved at any step,
\* over an index that no insert or remove touches, each return what the call
\* returns when run alone, none reads a freed node, and the tree stays the
\* one the calls began on.
C21_ConcurrentReadsAgree ==
    /\ tree = Filled(capacity_, bs_searcher(capacity_).tree,
                     {SetOf(capacity_, E) : E \in StoredSets})
    /\ \A me \in BagToSet(finders) :
          /\ me.pc # "crashed" /\ ~me.read_freed
          /\ me.pc = "done" =>
                LET alone == find_subsets(capacity_, tree, me.bs) IN
                me.result = alone.ret /\ me.err = alone.err

\* one call has returned two values while another, with another query, is
\* in the middle of its traversal
C21_Witness ==
    \E one, other \in BagToSet(finders) :
        /\ one.pc = "done" /\ Len(one.result) = 2
        /\ other.pc = "level" /\ other.i = 1
        /\ other.bs # one.bs
        /\ Len(other.current_level) = 1

\* C23: in find_subsets(q), after the steps for the bit positions below i the
\* frontier holds exactly the existing nodes at depth i whose path takes the
\* absent branch at every position q does not contain, each once; after
\* capacity steps it is exactly the existing leaves on subset-consistent paths.
C23_FrontierPerLevel ==
    \A me \in BagToSet(finders) :
        (me.pc \in {"level", "done"} /\ me.err = "none") =>
            /\ NodesOf(me.current_level) = AllowedAt(tree, me.bs, me.i)
            /\ EachOnce(me.current_level)
            /\ me.i = capacity_ =>
                   NodesOf(me.current_level) = MatchingLeaves(tree, me.bs)

\* after the step for position 0 the frontier of one call has left out an
\* existing node at depth 1, and another call has reached two leaves
C23_Witness ==
    /\ capacity_ = 2
    /\ \E one, other \in BagToSet(finders) :
          /\ one.pc = "level" /\ one.i = 1
          /\ Len(one.current_level) = 1
          /\ \E p \in DOMAIN tree : Len(p) = 1 /\ p \notin NodesOf(one.current_level)
          /\ other.pc = "level" /\ other.i = capacity_
          /\ Len(other.current_level) = 2

\* C26: with no mutual exclusion, the pruning loop of a remove that runs
\* between two level steps of a find_subsets frees nodes that the frontier
\* still holds, and the traversal goes on to read them: a frontier node that
\* is no longer in the tree is always one that the pruning loop has freed, a
\* node on the path of the removed set below the loop's position.
C26_FrontierOutlivesPrunedNode ==
    \A me \in BagToSet(finders) :
        \A k \in 1..Len(me.current_level) :
            LET n == me.current_level[k] IN
            (me.pc \in {"level", "crashed"} /\ n \notin DOMAIN tree) =>
                /\ remover.pc \in {"prune", "done"}
                /\ IsPrefix(n, PathOf(capacity_, Elements(remover.bs)))
                /\ Len(n) > remover.i

\* the traversal has read a node that the pruning loop freed after the
\* traversal had put it on the frontier
C26_Witness ==
    /\ remover.pc = "done" /\ remover.ret
    /\ \E me \in BagToSet(finders) :
          /\ me.read_freed
          /\ \E k \in 1..Len(me.current_level) : me.current_level[k] \notin DOMAIN tree

====
